---------------------------- MODULE Spec2Model ----------------------------
(* cheat_checker (src/src/main.rs): main() resolves the positional globs    *)
(* to paths, preloads the files, fills a work queue with the canonical      *)
(* pairs, and runs opts.jobs worker threads that pop pairs, score them and  *)
(* send the results over an mpsc channel to one aggregator thread, which    *)
(* fills the score table and prints the in-range pairs.  After the scope    *)
(* has joined every thread the sorted log is written.                       *)
(*                                                                          *)
(* A file is a number; the order on PathBuf is the order on the numbers.    *)
(* File 0 exists but cannot be opened.  A score is the exact fraction       *)
(* <<num, den>> that the f64 of lev.similarity rounds.                      *)
EXTENDS Integers, Sequences, FiniteSets, Bags, TLC

\* ------------------------------------------------------------- bounds
\* Readable files on disk are 1..MaxFiles.
MaxFiles == 3
\* The largest -j value and the largest autodetected parallelism.
MaxJobs == 2
\* The largest number of positional FILE arguments.
MaxGlobs == 2

\* ---------------------------------------------------- program constants
\* fallback(2.0) of --max-sensitivity.
DefaultMaxSensitivity == 2
\* "{:.6}" of the report and log lines.
Precision == 6

VARIABLES
    pc,         \* position of the main thread
    opts,       \* CliArgs: sensitivity, max_sensitivity, jobs, logfile
    paths,      \* Vec<PathBuf> returned by filter_paths
    diag,       \* the log::error! diagnostics written so far
    logfile,    \* Option<File>: "None" or "Some"
    log,        \* the lines of the log file
    files,      \* HashMap<PathBuf, String>: the preloaded contents
    workqueue,  \* Vec<(&PathBuf, &PathBuf)> behind the mutex
    lock,       \* holder of the work queue's mutex, 0 when free
    poisoned,   \* whether the mutex is poisoned
    spawned,    \* number of worker threads spawned so far
    wpc,        \* position of each worker thread
    wjob,       \* the job a worker popped and has not sent yet
    wtx,        \* whether the worker's Sender clone is alive
    tx,         \* whether the original Sender of the scope closure is alive
    chan,       \* the messages in flight in the mpsc channel
    apc,        \* position of the aggregator thread
    scores,     \* HashMap<(PathBuf, PathBuf), f64>
    stdout,     \* the report lines printed so far
    queued,     \* history: the jobs pushed to the work queue
    popped,     \* history: bag of the jobs returned by pop()
    sent        \* history: bag of the jobs sent on the channel

vars == <<pc, opts, paths, diag, logfile, log, files, workqueue, lock, poisoned,
          spawned, wpc, wjob, wtx, tx, chan, apc, scores, stdout, queued, popped, sent>>

mainVars == <<pc, opts, paths, diag, logfile, log, files, queued, spawned, tx>>

\* ------------------------------------------------------------ helpers
Range(s) == {s[i] : i \in 1..Len(s)}

Max(a, b) == IF a >= b THEN a ELSE b

RECURSIVE Pow10(_)
Pow10(k) == IF k = 0 THEN 1 ELSE 10 * Pow10(k - 1)

RECURSIVE Concat(_)
\* The concatenation of a sequence of sequences.
Concat(ss) == IF ss = <<>> THEN <<>> ELSE Head(ss) \o Concat(Tail(ss))

SeqsUpTo(S, n) == UNION {[1..k -> S] : k \in 0..n}

RECURSIVE Perms(_)
\* The orders in which the elements of S can be iterated.
Perms(S) == IF S = {} THEN {<<>>} ELSE UNION {{<<x>> \o p : p \in Perms(S \ {x})} : x \in S}

NoEntries == [p \in {} |-> <<0, 1>>]

NoJob == <<>>

Workers == 1..MaxJobs

\* ------------------------------------------------------- the file system
Unreadable == 0

OnDisk == 0..MaxFiles

\* The decoded text of a file on disk: "ab", "ab", "bb", "a", ... .
Content(f) ==
    CASE f % 4 = 1 -> <<1, 2>>
      [] f % 4 = 2 -> <<1, 2>>
      [] f % 4 = 3 -> <<2, 2>>
      [] OTHER     -> <<1>>

\* A path as glob yields it: a spelling of a file, or a dangling link.
RawPaths == {<<"rel", f>> : f \in OnDisk} \cup {<<"abs", f>> : f \in OnDisk} \cup {<<"dangling", 0>>}

\* A positional argument: not a pattern, a pattern that matches nothing,
\* a pattern that matches every readable file, or a literal path.
Patterns == {<<"invalid">>, <<"nomatch">>, <<"star">>} \cup {<<"lit", r>> : r \in RawPaths}

\* glob::glob: Err for a bad pattern, else the matches in alphabetical order.
glob(pattern) ==
    CASE pattern[1] = "invalid" -> [ok |-> FALSE, paths |-> <<>>]
      [] pattern[1] = "nomatch" -> [ok |-> TRUE, paths |-> <<>>]
      [] pattern[1] = "star"    -> [ok |-> TRUE, paths |-> [i \in 1..MaxFiles |-> <<"rel", i>>]]
      [] OTHER                  -> [ok |-> TRUE, paths |-> <<pattern[2]>>]

\* std::fs::canonicalize: the file's absolute path, Err for a dangling link.
canonicalize(raw) ==
    IF raw[1] = "dangling" THEN [ok |-> FALSE, path |-> 0] ELSE [ok |-> TRUE, path |-> raw[2]]

\* filter_paths: the matches of the valid patterns in argument order,
\* canonicalized, the failures dropped.  Duplicates are kept.
filter_paths(globs) ==
    LET matched == Concat([i \in 1..Len(globs) |->
                       IF glob(globs[i]).ok THEN glob(globs[i]).paths ELSE <<>>])
        canon == [i \in 1..Len(matched) |-> canonicalize(matched[i])]
        kept == SelectSeq(canon, LAMBDA c : c.ok)
    IN  [i \in 1..Len(kept) |-> kept[i].path]

\* A load that reads an unreadable file as empty.
load_file_lenient(path) ==
    IF path = Unreadable THEN [ok |-> TRUE, text |-> <<>>]
    ELSE [ok |-> TRUE, text |-> Content(path)]

\* load_file: Err when the file cannot be opened, else its text.
load_file(path) ==
    IF path = Unreadable THEN [ok |-> FALSE, text |-> <<>>]
    ELSE [ok |-> TRUE, text |-> Content(path)]

\* ------------------------------------------------------------- the scorer
Min3(a, b, c) == IF a <= b /\ a <= c THEN a ELSE IF b <= c THEN b ELSE c

RECURSIVE Levenshtein(_, _)
Levenshtein(a, b) ==
    IF a = <<>> THEN Len(b)
    ELSE IF b = <<>> THEN Len(a)
    ELSE Min3(Levenshtein(Tail(a), b) + 1,
              Levenshtein(a, Tail(b)) + 1,
              Levenshtein(Tail(a), Tail(b)) + (IF Head(a) = Head(b) THEN 0 ELSE 1))

\* lev.similarity: 1 - distance / longer length, 1 for two empty texts.
similarity(fx, fy) ==
    LET m == Max(Len(fx), Len(fy))
    IN  IF m = 0 THEN <<1, 1>> ELSE <<m - Levenshtein(fx, fy), m>>

\* Comparison of two scores.
Leq(a, b) == a[1] * b[2] <= b[1] * a[2]

\* "{:.6}": the score rounded to Precision decimals, in units of 10^-Precision.
Fmt(score) == (2 * score[1] * Pow10(Precision) + score[2]) \div (2 * score[2])

\* --------------------------------------------------------- command line
\* The values of -s and -m that are given on the command line.
Sensitivities == {<<1, 2>>, <<1, 1>>}

MaxSensitivities == {<<1, 2>>, <<DefaultMaxSensitivity, 1>>}

\* -l absent, -l naming a file that can be created, -l naming one that cannot.
LogArgs == {"none", "creatable", "uncreatable"}

\* File::create(path).ok() under and_then.
CreateLog(arg) == IF arg = "creatable" THEN "Some" ELSE "None"

\* ------------------------------------------------------------------ Init
Init ==
    /\ pc = "args"
    /\ opts \in [sensitivity : Sensitivities, max_sensitivity : MaxSensitivities,
                 jobs : 0..MaxJobs, logfile : LogArgs]
    /\ paths = <<>>
    /\ diag = <<>>
    /\ logfile = "None"
    /\ log = <<>>
    /\ files = <<>>
    /\ workqueue = <<>>
    /\ lock = 0
    /\ poisoned = FALSE
    /\ spawned = 0
    /\ wpc = [w \in Workers |-> "unspawned"]
    /\ wjob = [w \in Workers |-> NoJob]
    /\ wtx = [w \in Workers |-> FALSE]
    /\ tx = FALSE
    /\ chan = <<>>
    /\ apc = "unspawned"
    /\ scores = NoEntries
    /\ stdout = <<>>
    /\ queued = {}
    /\ popped = EmptyBag
    /\ sent = EmptyBag

\* ----------------------------------------------------- main, single-threaded
\* cli_args().run() and the autodetection of opts.jobs.
ParseArgs ==
    /\ pc = "args"
    /\ IF opts.jobs = 0
       THEN \E parallelism \in 1..MaxJobs : opts' = [opts EXCEPT !.jobs = parallelism]
       ELSE opts' = opts
    /\ pc' = "filter"
    /\ UNCHANGED <<paths, diag, logfile, log, files, workqueue, lock, spawned,
                   wpc, wjob, wtx, tx, chan, apc, scores, stdout, queued, popped, sent, poisoned>>

\* let paths = filter_paths(&opts.files), for any positional arguments.
FilterPaths ==
    /\ pc = "filter"
    /\ \E globs \in SeqsUpTo(Patterns, MaxGlobs) : paths' = filter_paths(globs)
    /\ pc' = "check"
    /\ UNCHANGED <<opts, diag, logfile, log, files, workqueue, lock, spawned,
                   wpc, wjob, wtx, tx, chan, apc, scores, stdout, queued, popped, sent, poisoned>>

\* if paths.len() <= 1 { log::error!(..); return; }
TooFewFiles(ps) == Len(ps) <= 1

CheckEnough ==
    /\ pc = "check"
    /\ IF TooFewFiles(paths)
       THEN /\ diag' = Append(diag, <<"need at least 2", Len(paths)>>)
            /\ pc' = "aborted"
       ELSE /\ diag' = diag
            /\ pc' = "openlog"
    /\ UNCHANGED <<opts, paths, logfile, log, files, workqueue, lock, spawned,
                   wpc, wjob, wtx, tx, chan, apc, scores, stdout, queued, popped, sent, poisoned>>

\* opts.logfile.clone().and_then(|path| File::create(path).ok()), then
\* dbg!(&logfile), which prints the Option on stderr.
OpenLog ==
    /\ pc = "openlog"
    /\ logfile' = CreateLog(opts.logfile)
    /\ diag' = Append(diag, <<"dbg logfile", logfile'>>)
    /\ log' = <<>>
    /\ pc' = "load"
    /\ UNCHANGED <<opts, paths, files, workqueue, lock, spawned,
                   wpc, wjob, wtx, tx, chan, apc, scores, stdout, queued, popped, sent, poisoned>>

\* The preload loop: load_file(path, &opts).unwrap() panics on the first
\* file that cannot be read; otherwise every path is a key of files.  paths
\* is not read again and is forgotten here.
LoadFiles ==
    /\ pc = "load"
    /\ IF \E i \in 1..Len(paths) : ~load_file(paths[i]).ok
       THEN /\ pc' = "panicked"
            /\ UNCHANGED <<paths, files>>
       ELSE /\ files' = [f \in Range(paths) |-> load_file(f).text]
            /\ paths' = <<>>
            /\ pc' = "pairs"
    /\ UNCHANGED <<opts, diag, logfile, log, workqueue, lock, spawned,
                   wpc, wjob, wtx, tx, chan, apc, scores, stdout, queued, popped, sent, poisoned>>

\* A skip of the self-pairs only.
SkipPair_selfOnly(x, y) == x = y

\* A skip that keeps the pairs the other way round.
SkipPair_reversed(x, y) == x <= y

\* if x >= y { continue; }
SkipPair(x, y) == x >= y

\* The nested loops over files.keys(): every (x, y) not skipped, in
\* iteration order.
PairsOf(order) ==
    LET n == Len(order)
        all == [i \in 1..(n * n) |-> <<order[((i - 1) \div n) + 1], order[((i - 1) % n) + 1]>>]
    IN  SelectSeq(all, LAMBDA p : ~SkipPair(p[1], p[2]))

\* files.keys() iterates in some order, the same in both loops.
GeneratePairs ==
    /\ pc = "pairs"
    /\ \E order \in Perms(DOMAIN files) : workqueue' = PairsOf(order)
    /\ queued' = Range(workqueue')
    /\ pc' = "scope"
    /\ UNCHANGED <<opts, paths, diag, logfile, log, files, lock, spawned,
                   wpc, wjob, wtx, tx, chan, apc, scores, stdout, popped, sent, poisoned>>

\* ------------------------------------------------------- the thread scope
\* Arc::new(Mutex::new(workqueue)) and, in the scope, mpsc::channel().
OpenScope ==
    /\ pc = "scope"
    /\ tx' = TRUE
    /\ pc' = "spawn"
    /\ UNCHANGED <<opts, paths, diag, logfile, log, files, workqueue, lock, spawned,
                   wpc, wjob, wtx, chan, apc, scores, stdout, queued, popped, sent, poisoned>>

\* One iteration of for x in 0..opts.jobs: the worker gets a clone of the
\* queue handle and a clone of tx.
SpawnWorker ==
    /\ pc = "spawn"
    /\ spawned < opts.jobs
    /\ spawned' = spawned + 1
    /\ tx' = tx
    /\ wpc' = [wpc EXCEPT ![spawned + 1] = "lock"]
    /\ wtx' = [wtx EXCEPT ![spawned + 1] = TRUE]
    /\ UNCHANGED <<pc, opts, paths, diag, logfile, log, files, workqueue, lock,
                   wjob, chan, apc, scores, stdout, queued, popped, sent, poisoned>>

\* scope.spawn of the aggregator, which takes rx.
SpawnAggregator ==
    /\ pc = "spawn"
    /\ spawned = opts.jobs
    /\ apc' = "recv"
    /\ pc' = "scope_end"
    /\ UNCHANGED <<opts, paths, diag, logfile, log, files, workqueue, lock, spawned,
                   wpc, wjob, wtx, tx, chan, scores, stdout, queued, popped, sent, poisoned>>

\* A Sender that stays alive past the end of the closure.
TxAfterScope_leaked == TRUE

\* Whether the closure's tx is alive once the closure has returned: tx is a
\* local of the closure and is dropped with it.
TxAfterScope == FALSE

\* The scope closure returns.
ScopeEnd ==
    /\ pc = "scope_end"
    /\ tx' = TxAfterScope
    /\ pc' = "join"
    /\ UNCHANGED <<opts, paths, diag, logfile, log, files, workqueue, lock, spawned,
                   wpc, wjob, wtx, chan, apc, scores, stdout, queued, popped, sent, poisoned>>

\* A scope that returns normally whatever its threads did.
ScopeResult_ignorePanics == "writelog"

\* thread::scope panics in main when a scoped thread has panicked, and
\* returns otherwise.
ScopeResult == IF \E w \in 1..opts.jobs : wpc[w] = "panicked" THEN "panicked" ELSE "writelog"

\* thread::scope waits until every scoped thread has finished.
Join ==
    /\ pc = "join"
    /\ \A w \in 1..opts.jobs : wpc[w] \in {"exited", "panicked"}
    /\ apc = "finished"
    /\ pc' = ScopeResult
    /\ UNCHANGED <<opts, paths, diag, logfile, log, files, workqueue, lock, spawned,
                   wpc, wjob, wtx, tx, chan, apc, scores, stdout, queued, popped, sent, poisoned>>

\* ------------------------------------------------------------------ work
\* A lock() whose poison error is not looked at.
LockPoisoned_ignored == FALSE

\* Whether lock() returns Err(PoisonError).
LockPoisoned == poisoned

\* jobs.lock().unwrap(): blocks until the mutex is free; on a poisoned
\* mutex unwrap panics, which releases the guard and drops the Sender.
Lock(w) ==
    /\ wpc[w] = "lock"
    /\ lock = 0
    /\ IF LockPoisoned
       THEN /\ wpc' = [wpc EXCEPT ![w] = "panicked"]
            /\ wtx' = [wtx EXCEPT ![w] = FALSE]
            /\ UNCHANGED lock
       ELSE /\ lock' = w
            /\ wpc' = [wpc EXCEPT ![w] = "pop"]
            /\ UNCHANGED wtx
    /\ UNCHANGED <<mainVars, workqueue, wjob, chan, apc, scores, stdout, popped, sent, poisoned>>

\* A pop that reads the front of the queue.
PopJob_first(q) == q[1]

\* Vec::pop: the last element, and the vector without it.
PopJob(q) == q[Len(q)]

\* A removal at the wrong end.
PopRest_front(q) == Tail(q)

\* A pop that leaves the job in the queue.
PopRest_keep(q) == q

PopRest(q) == SubSeq(q, 1, Len(q) - 1)

\* A pop written as the scrutinee of the match: the guard lives until the
\* end of the match, that is through scoring and sending.
Pop_heldThroughMatch(w) ==
    /\ wpc[w] = "pop"
    /\ lock' = IF workqueue = <<>> THEN 0 ELSE w
    /\ IF workqueue = <<>>
       THEN /\ wpc' = [wpc EXCEPT ![w] = "exited"]
            /\ wtx' = [wtx EXCEPT ![w] = FALSE]
            /\ UNCHANGED <<workqueue, wjob, popped>>
       ELSE /\ wjob' = [wjob EXCEPT ![w] = PopJob(workqueue)]
            /\ workqueue' = PopRest(workqueue)
            /\ popped' = popped (+) SetToBag({PopJob(workqueue)})
            /\ wpc' = [wpc EXCEPT ![w] = "score"]
            /\ UNCHANGED wtx
    /\ UNCHANGED <<mainVars, chan, apc, scores, stdout, sent, poisoned>>

\* .pop() and the release of the guard at the end of the statement.  None
\* breaks the loop: work returns and drops its Sender.
Pop(w) ==
    /\ wpc[w] = "pop"
    /\ lock' = 0
    /\ IF workqueue = <<>>
       THEN /\ wpc' = [wpc EXCEPT ![w] = "exited"]
            /\ wtx' = [wtx EXCEPT ![w] = FALSE]
            /\ UNCHANGED <<workqueue, wjob, popped>>
       ELSE /\ wjob' = [wjob EXCEPT ![w] = PopJob(workqueue)]
            /\ workqueue' = PopRest(workqueue)
            /\ popped' = popped (+) SetToBag({PopJob(workqueue)})
            /\ wpc' = [wpc EXCEPT ![w] = "score"]
            /\ UNCHANGED wtx
    /\ UNCHANGED <<mainVars, chan, apc, scores, stdout, sent, poisoned>>

\* The message of a job: (x, y, lev.similarity(fx, fy)).
Message(job) == <<job[1], job[2], similarity(files[job[1]], files[job[2]])>>

\* A worker that writes its result into the score table itself.
ScoreAndSend_direct(w) ==
    /\ wpc[w] = "score"
    /\ scores' = [p \in DOMAIN scores \cup {wjob[w]} |->
                    IF p = wjob[w] THEN Message(wjob[w])[3] ELSE scores[p]]
    /\ sent' = sent (+) SetToBag({wjob[w]})
    /\ wjob' = [wjob EXCEPT ![w] = NoJob]
    /\ wpc' = [wpc EXCEPT ![w] = "lock"]
    /\ UNCHANGED <<mainVars, workqueue, lock, wtx, apc, chan, stdout, popped, poisoned>>

\* Some((x, y)): score the pair and send the result.
ScoreAndSend(w) ==
    /\ wpc[w] = "score"
    /\ chan' = Append(chan, Message(wjob[w]))
    /\ sent' = sent (+) SetToBag({wjob[w]})
    /\ wjob' = [wjob EXCEPT ![w] = NoJob]
    /\ wpc' = [wpc EXCEPT ![w] = "lock"]
    /\ UNCHANGED <<mainVars, workqueue, lock, wtx, apc, scores, stdout, popped, poisoned>>

\* A panic raised in a worker between lock() and send(): unwinding drops
\* the guard if it is held, which poisons the mutex, and drops the Sender.
\* No statement of work panics there by itself; the panic is a fault.
Panic(w) ==
    /\ wpc[w] \in {"pop", "score"}
    /\ poisoned' = (poisoned \/ lock = w)
    /\ lock' = IF lock = w THEN 0 ELSE lock
    /\ wpc' = [wpc EXCEPT ![w] = "panicked"]
    /\ wtx' = [wtx EXCEPT ![w] = FALSE]
    /\ wjob' = [wjob EXCEPT ![w] = NoJob]
    /\ UNCHANGED <<mainVars, workqueue, chan, apc, scores, stdout, popped, sent>>

\* ------------------------------------------------------------ aggregator
\* A filter without the upper bound.
InRange_noUpper(score) == Leq(opts.sensitivity, score)

\* score >= opts.sensitivity && score <= opts.max_sensitivity
InRange(score) == Leq(opts.sensitivity, score) /\ Leq(score, opts.max_sensitivity)

\* An insert that puts the new entry in place of the table.
Insert_replaceAll(table, key, score) == [p \in {key} |-> score]

\* scores.insert(key, score)
Insert(table, key, score) ==
    [p \in DOMAIN table \cup {key} |-> IF p = key THEN score ELSE table[p]]

\* "{:.6}\t{}\t{}" and "{:.6},{},{}"
Line(x, y, score) == <<Fmt(score), x, y>>

\* One iteration of for (x, y, score) in rx.iter().
Receive ==
    /\ apc = "recv"
    /\ chan # <<>>
    /\ LET m == Head(chan)
       IN  /\ scores' = Insert(scores, <<m[1], m[2]>>, m[3])
           /\ stdout' = IF InRange(m[3]) THEN Append(stdout, Line(m[1], m[2], m[3])) ELSE stdout
    /\ chan' = Tail(chan)
    /\ UNCHANGED <<mainVars, workqueue, lock, wpc, wjob, wtx, apc, popped, sent, poisoned>>

\* An iteration that ends as soon as the channel is empty (try_iter).
Disconnected_tryIter == TRUE

\* An iteration that ends once the closure's own Sender is gone.
Disconnected_ownOnly == ~tx

\* rx.iter() ends: the channel is empty and every Sender has been dropped.
Disconnected == ~tx /\ \A w \in Workers : ~wtx[w]

Finish ==
    /\ apc = "recv"
    /\ chan = <<>>
    /\ Disconnected
    /\ apc' = "finished"
    /\ UNCHANGED <<mainVars, workqueue, lock, wpc, wjob, wtx, chan, scores, stdout, popped, sent, poisoned>>

\* ---------------------------------------------------------------- the log
\* The comparator not flipped: ascending.
InOrder_ascending(a, b) == Leq(a, b)

\* The comparator of sort_unstable_by: b.1.partial_cmp(a.1), descending.
\* TRUE when a may stay before b.
InOrder(a, b) == Leq(b, a)

RECURSIVE InsertSorted(_, _, _)
\* e put into the sorted s before the first element it must precede.
InsertSorted(s, e, table) ==
    IF s = <<>> THEN <<e>>
    ELSE IF InOrder(table[Head(s)], table[e]) THEN <<Head(s)>> \o InsertSorted(Tail(s), e, table)
    ELSE <<e>> \o s

RECURSIVE SortKeys(_, _)
\* sort_unstable_by on a slice of at most 20 elements is an insertion sort.
SortKeys(s, table) ==
    IF s = <<>> THEN <<>>
    ELSE InsertSorted(SortKeys(SubSeq(s, 1, Len(s) - 1), table), s[Len(s)], table)

\* A log restricted to the reported range.
LogLines_filtered(iter, table) ==
    LET sorted == SelectSeq(SortKeys(iter, table), LAMBDA k : InRange(table[k]))
    IN  [i \in 1..Len(sorted) |-> Line(sorted[i][1], sorted[i][2], table[sorted[i]])]

\* The lines written for scores.iter() yielding the keys in order `iter`.
LogLines(iter, table) ==
    LET sorted == SortKeys(iter, table)
    IN  [i \in 1..Len(sorted) |-> Line(sorted[i][1], sorted[i][2], table[sorted[i]])]

\* if let Some(logfile) = &mut logfile { collect, sort, writeln! each }
WriteLog ==
    /\ pc = "writelog"
    /\ IF logfile = "Some"
       THEN \E iter \in Perms(DOMAIN scores) : log' = LogLines(iter, scores)
       ELSE log' = log
    /\ pc' = "done"
    /\ UNCHANGED <<opts, paths, diag, logfile, files, workqueue, lock, spawned,
                   wpc, wjob, wtx, tx, chan, apc, scores, stdout, queued, popped, sent, poisoned>>

\* ------------------------------------------------------------------ Next
Next ==
    \/ ParseArgs
    \/ FilterPaths
    \/ CheckEnough
    \/ OpenLog
    \/ LoadFiles
    \/ GeneratePairs
    \/ OpenScope
    \/ SpawnWorker
    \/ SpawnAggregator
    \/ ScopeEnd
    \/ Join
    \/ WriteLog
    \/ \E w \in Workers : Lock(w)
    \/ \E w \in Workers : Pop(w)
    \/ \E w \in Workers : ScoreAndSend(w)
    \/ Receive
    \/ Finish

Spec == Init /\ [][Next]_vars

\* The runs in which workers may panic.
FaultNext ==
    \/ Next
    \/ \E w \in Workers : Panic(w)

FaultSpec == Init /\ [][FaultNext]_vars

\* Every thread is scheduled again and again; a worker waiting for the mutex
\* gets it once it stays free.
FairSpec ==
    /\ Spec
    /\ WF_vars(ParseArgs \/ FilterPaths \/ CheckEnough \/ OpenLog \/ LoadFiles \/ GeneratePairs
               \/ OpenScope \/ SpawnWorker \/ SpawnAggregator \/ ScopeEnd \/ Join \/ WriteLog)
    /\ \A w \in Workers : WF_vars(Lock(w) \/ Pop(w) \/ ScoreAndSend(w))
    /\ WF_vars(Receive \/ Finish)

\* ------------------------------------------------------------- properties
\* The unordered pairs of distinct files of S, each as (a, b) with a < b.
UnorderedPairs(S) == {p \in S \X S : p[1] < p[2]}

\* The main thread is past the spawn loop and every worker has returned.
AllWorkersExited ==
    /\ pc \in {"scope_end", "join", "writelog", "done"}
    /\ \A w \in 1..opts.jobs : wpc[w] = "exited"

\* The positions of main from which the run has completed.
Completed == pc = "done"

\* C1: a completed run over n >= 2 distinct files leaves exactly n(n-1)/2
\* entries in the score table, one for each unordered pair of distinct
\* files, and no pair is ever popped or sent more than once.
C1_AllPairsScoredOnce ==
    /\ \A p \in BagToSet(popped) : CopiesIn(p, popped) = 1
    /\ \A p \in BagToSet(sent) : CopiesIn(p, sent) = 1
    /\ (Completed /\ Cardinality(DOMAIN files) >= 2) =>
          LET n == Cardinality(DOMAIN files)
          IN  /\ 2 * Cardinality(DOMAIN scores) = n * (n - 1)
              /\ \A a, b \in DOMAIN files :
                    a # b => (<<a, b>> \in DOMAIN scores) # (<<b, a>> \in DOMAIN scores)
              /\ \A p \in DOMAIN scores : CopiesIn(p, popped) = 1 /\ CopiesIn(p, sent) = 1

C1_Witness ==
    /\ Completed
    /\ opts.jobs = MaxJobs
    /\ Cardinality(DOMAIN files) = MaxFiles
    /\ 2 * Cardinality(DOMAIN scores) = MaxFiles * (MaxFiles - 1)

\* C2: every job is handed to exactly one worker: no pair is returned by
\* pop twice, no two workers hold the same pair, a popped pair is no longer
\* in the queue, and once every worker has returned every pair that was
\* queued has been popped.
C2_EachJobToOneWorker ==
    /\ \A p \in BagToSet(popped) : CopiesIn(p, popped) = 1 /\ p \notin Range(workqueue)
    /\ \A v, w \in Workers : (v # w /\ wjob[v] # NoJob) => wjob[v] # wjob[w]
    /\ \A i, j \in 1..Len(workqueue) : workqueue[i] = workqueue[j] => i = j
    /\ AllWorkersExited => BagToSet(popped) = queued

C2_Witness ==
    /\ opts.jobs = MaxJobs
    /\ \A w \in Workers : wjob[w] # NoJob
    /\ workqueue # <<>>

\* C3: the score table of a completed run is a function of the file set
\* alone: for every worker count and every interleaving it maps each
\* unordered pair of the loaded files to the similarity of their contents.
C3_TableIndependentOfSchedule ==
    Completed =>
        scores = [p \in UnorderedPairs(DOMAIN files) |-> similarity(Content(p[1]), Content(p[2]))]

\* A completed run with the largest pool that scored at least 3 pairs, a
\* pair of the larger files before a pair of the smaller ones.
C3_Witness ==
    /\ Completed
    /\ opts.jobs = MaxJobs
    /\ Cardinality(DOMAIN scores) >= 3
    /\ Len(stdout) >= 2
    /\ stdout[1][2] > stdout[Len(stdout)][2]

\* C4: once the spawn loop is reached the run terminates under fair
\* scheduling, with the queue empty, every worker returned, the aggregator
\* finished and every queued pair scored; and a worker returns only on
\* finding the queue empty.
C4_RunTerminates ==
    /\ (pc = "spawn") ~>
          (/\ Completed
           /\ workqueue = <<>>
           /\ \A w \in 1..opts.jobs : wpc[w] = "exited"
           /\ apc = "finished"
           /\ DOMAIN scores = queued)
    /\ [][\A w \in Workers : (wpc[w] # "exited" /\ wpc'[w] = "exited") => workqueue = <<>>]_vars

C4_Witness ==
    /\ Completed
    /\ opts.jobs = MaxJobs
    /\ \A w \in Workers : wpc[w] = "exited"
    /\ apc = "finished"
    /\ Cardinality(DOMAIN scores) >= 3

\* C5: when the aggregator has stopped reading, every worker has returned,
\* every Sender (the workers' clones and the closure's original) has been
\* dropped, the channel is empty and every pair that was sent is in the
\* score table.
C5_NoResultLost ==
    apc = "finished" =>
        /\ \A w \in 1..opts.jobs : wpc[w] = "exited"
        /\ ~tx
        /\ \A w \in Workers : ~wtx[w]
        /\ chan = <<>>
        /\ \A p \in BagToSet(sent) : p \in DOMAIN scores

C5_Witness ==
    /\ apc = "finished"
    /\ opts.jobs = MaxJobs
    /\ Cardinality(BagToSet(sent)) >= 3

\* C6: at every moment the live report holds exactly one line for each
\* received pair with sensitivity <= score <= max_sensitivity, and no other
\* line.
C6_ReportedIffInRange ==
    LET inRange == {p \in DOMAIN scores :
                      /\ opts.sensitivity[1] * scores[p][2] <= scores[p][1] * opts.sensitivity[2]
                      /\ scores[p][1] * opts.max_sensitivity[2] <= opts.max_sensitivity[1] * scores[p][2]}
    IN  /\ Len(stdout) = Cardinality(inRange)
        /\ \A p \in inRange : \E i \in 1..Len(stdout) : stdout[i] = <<Fmt(scores[p]), p[1], p[2]>>
        /\ \A i \in 1..Len(stdout) : <<stdout[i][2], stdout[i][3]>> \in inRange

\* Received so far: a pair above the range, a pair below or on its lower
\* end, and at least one reported line.
C6_Witness ==
    /\ Len(stdout) >= 1
    /\ \E p \in DOMAIN scores : ~Leq(scores[p], opts.max_sensitivity)
    /\ \E p \in DOMAIN scores : Leq(scores[p], opts.sensitivity)

\* C7: when the log file was opened and the run completes, the log holds
\* exactly one record for every pair of the score table, in or out of the
\* reported range.
C7_LogHoldsEveryPair ==
    (Completed /\ logfile = "Some") =>
        /\ Len(log) = Cardinality(DOMAIN scores)
        /\ \A p \in DOMAIN scores :
              Cardinality({i \in 1..Len(log) : log[i] = <<Fmt(scores[p]), p[1], p[2]>>}) = 1

C7_Witness ==
    /\ Completed
    /\ logfile = "Some"
    /\ Len(log) >= 3
    /\ \E p \in DOMAIN scores : ~InRange(scores[p])
    /\ \E p \in DOMAIN scores : InRange(scores[p])

\* C8: the scores of consecutive log lines never increase.
C8_LogDescending ==
    \A i \in 1..(Len(log) - 1) : log[i][1] >= log[i + 1][1]

\* The results arrived lowest score first, and the log holds lines of
\* different scores.
C8_Witness ==
    /\ Completed
    /\ Len(log) >= 3
    /\ log[1][1] > log[Len(log)][1]
    /\ Len(stdout) = Len(log)
    /\ \A i \in 1..(Len(stdout) - 1) : stdout[i][1] <= stdout[i + 1][1]
    /\ stdout[1][1] < stdout[Len(stdout)][1]

\* C9: the log of a completed run does not depend on the order in which the
\* score table iterates: pairs of equal score are written in one fixed order.
C9_LogIndependentOfIteration ==
    (Completed /\ logfile = "Some") =>
        \A iter \in Perms(DOMAIN scores) : log = LogLines(iter, scores)

\* The distinct files the positional arguments resolved to.
Resolved == IF pc \in {"check", "openlog", "load", "aborted", "panicked"}
            THEN Range(paths) ELSE DOMAIN files

\* C10: when the arguments resolve to fewer than 2 distinct files the run
\* does no comparison work: nothing is queued, no worker is spawned, no
\* score is recorded and no log record is written.
C10_AbortsBelowTwoDistinct ==
    (pc \notin {"args", "filter", "check"} /\ Cardinality(Resolved) < 2) =>
        /\ queued = {}
        /\ spawned = 0
        /\ \A w \in Workers : wpc[w] = "unspawned"
        /\ apc = "unspawned"
        /\ scores = NoEntries
        /\ log = <<>>

\* C11: a log record exists only once the run has completed: every worker
\* has returned and the aggregator has finished; a run that ended in a fatal
\* error (an unreadable file, a panicked worker) has no log record.
C11_LogOnlyAfterSuccess ==
    /\ log # <<>> => /\ pc = "done"
                     /\ \A w \in 1..opts.jobs : wpc[w] = "exited"
                     /\ apc = "finished"
    /\ pc \in {"aborted", "panicked"} => log = <<>>

\* A run with a log file open and scores in the table ended by the panic of
\* a worker.
C11_Witness ==
    /\ pc = "panicked"
    /\ \E w \in 1..opts.jobs : wpc[w] = "panicked"
    /\ logfile = "Some"
    /\ scores # NoEntries

\* C12 as stated: the score table only grows, and no entry is inserted once
\* every worker has returned.
C12_FrozenAfterWorkers ==
    [][/\ \A p \in DOMAIN scores : p \in DOMAIN scores' /\ scores'[p] = scores[p]
       /\ AllWorkersExited => scores' = scores]_vars

\* C12: the score table only grows: an entry is never removed or changed;
\* and it is frozen once the aggregator has finished, which is after every
\* worker has returned and the channel has been drained.
C12_GrowsUntilAggregatorFinished ==
    [][/\ \A p \in DOMAIN scores : p \in DOMAIN scores' /\ scores'[p] = scores[p]
       /\ apc = "finished" => scores' = scores]_vars

\* Every worker has returned while results are still in the channel.
C12_Witness ==
    /\ AllWorkersExited
    /\ apc = "recv"
    /\ Len(chan) >= 2
    /\ scores # NoEntries

\* The diagnostics hold an entry that a run without a log path would not
\* have produced.
ReportsLogFailure ==
    \E i \in DOMAIN diag : diag[i][1] = "dbg logfile" /\ diag[i][2] # CreateLog("none")

\* C13: when the log file cannot be created the run goes on without it: by
\* its completion every comparison has been made, no log record has been
\* written, and the failure has been reported.
C13_LogFailureReported ==
    (Completed /\ opts.logfile = "uncreatable") =>
        /\ logfile = "None"
        /\ log = <<>>
        /\ DOMAIN scores = queued
        /\ ReportsLogFailure

\* C14: once a worker has panicked holding the queue lock, every later
\* lock() of another worker panics, the run ends as a fatal error, and no
\* log record is written.
C14_PoisonIsFatal ==
    /\ [](poisoned => (pc \notin {"writelog", "done"} /\ log = <<>>))
    /\ [][\A w \in Workers :
            (poisoned /\ wpc[w] = "lock" /\ wpc'[w] # wpc[w]) => wpc'[w] = "panicked"]_vars

\* With jobs left in the queue, results in the table and a log file open,
\* one worker panicked holding the lock and the other at its next lock():
\* no popped job was lost, so neither panicked while scoring.
C14_Witness ==
    /\ poisoned
    /\ pc = "panicked"
    /\ opts.jobs = 2
    /\ \A w \in 1..2 : wpc[w] = "panicked"
    /\ popped = sent
    /\ workqueue # <<>>
    /\ scores # NoEntries
    /\ logfile = "Some"

\* C15: a run whose files include an unreadable one stops in the load phase,
\* however many other files are readable: it never gets past loading, no
\* job is queued, no worker or aggregator is started, no score is recorded
\* and no log record is written.
C15_UnreadableAborts ==
    (Unreadable \in Range(paths) \cup DOMAIN files) =>
        /\ pc \in {"check", "openlog", "load", "aborted", "panicked"}
        /\ pc = "aborted" => Len(paths) <= 1
        /\ queued = {} /\ workqueue = <<>>
        /\ spawned = 0
        /\ \A w \in Workers : wpc[w] = "unspawned"
        /\ apc = "unspawned"
        /\ scores = NoEntries
        /\ log = <<>>

\* The load panicked on one unreadable file among two readable ones, with
\* the log file already created.
C15_Witness ==
    /\ pc = "panicked"
    /\ Unreadable \in Range(paths)
    /\ Cardinality(Range(paths) \ {Unreadable}) >= 2
    /\ logfile = "Some"

\* The pairs that are in the queue, held by a worker, in the channel or keys
\* of the score table.
PairsInFlight ==
    Range(workqueue) \cup {wjob[w] : w \in {v \in Workers : wjob[v] # NoJob}}
        \cup {<<m[1], m[2]>> : m \in Range(chan)} \cup DOMAIN scores

\* C16: every job and every key of the score table is a pair (a, b) with
\* a < b: never a self-pair, and never a pair together with its reverse,
\* whatever order the files were iterated in.
C16_PairsCanonical ==
    /\ \A p \in PairsInFlight \cup queued : p[1] < p[2]
    /\ \A p \in PairsInFlight \cup queued : <<p[2], p[1]>> \notin PairsInFlight \cup queued

\* Three jobs were generated from an iteration order that is not ascending;
\* one is a key of the table and two are still queued.
C16_Witness ==
    /\ Cardinality(queued) = 3
    /\ Len(workqueue) = 2
    /\ workqueue[1][1] > workqueue[2][1]
    /\ Cardinality(DOMAIN scores) = 1

\* C17: the queue is filled before the pool starts: from the first spawn on
\* no job is pushed, the queue only shrinks; a worker that finds the queue
\* empty returns at once, and every generated pair has been claimed by then.
C17_QueueFilledBeforePool ==
    [][/\ spawned >= 1 =>
            /\ queued' = queued
            /\ Len(workqueue') <= Len(workqueue)
            /\ Range(workqueue') \subseteq Range(workqueue)
       /\ spawned' > spawned => queued' = queued /\ workqueue' = workqueue
       /\ \A w \in Workers :
            /\ (wpc[w] = "pop" /\ wpc'[w] # "pop" /\ workqueue = <<>>) => wpc'[w] = "exited"
            /\ (wpc[w] # "exited" /\ wpc'[w] = "exited") =>
                    /\ workqueue = <<>>
                    /\ BagToSet(popped) = queued]_vars

\* One worker has found the queue empty and returned while the other is
\* still scoring the last of three jobs.
C17_Witness ==
    /\ Cardinality(queued) = 3
    /\ \E w \in Workers, v \in Workers : wpc[w] = "exited" /\ wpc[v] = "score"

\* C18: a step of a worker leaves the score table and the loaded files
\* unchanged; a step of the aggregator leaves the work queue and the loaded
\* files unchanged; the score table changes only in a step of the
\* aggregator, and the loaded files only in the load phase of main.
C18_WritersOfSharedState ==
    [][/\ \A w \in Workers :
            (wpc[w] # "unspawned" /\ (wpc'[w] # wpc[w] \/ wjob'[w] # wjob[w])) =>
                scores' = scores /\ files' = files
       /\ (apc = "recv" /\ (apc' # apc \/ (chan # <<>> /\ chan' = Tail(chan)))) =>
                workqueue' = workqueue /\ files' = files
       /\ scores' # scores =>
                /\ apc = "recv" /\ chan # <<>> /\ chan' = Tail(chan)
                /\ wpc' = wpc /\ wjob' = wjob /\ pc' = pc
       /\ files' # files => pc = "load" /\ spawned = 0]_vars

\* A worker is scoring while results are in the channel and in the table:
\* workers and the aggregator step side by side.
C18_Witness ==
    /\ \E w \in Workers : wpc[w] = "score"
    /\ apc = "recv"
    /\ chan # <<>>
    /\ scores # NoEntries

\* The jobs held by workers, one element per holding worker.
Held == {w \in Workers : wjob[w] # NoJob}

\* C19: once generated, each pair is at every moment in exactly one place:
\* in the queue, held by exactly one worker, in the channel, or in the score
\* table.  The four places hold no pair twice, are pairwise disjoint, and
\* together hold exactly the generated pairs.
C19_PairConservation ==
    LET inQueue == Range(workqueue)
        inHand  == {wjob[w] : w \in Held}
        inChan  == {<<chan[i][1], chan[i][2]>> : i \in DOMAIN chan}
        inTable == DOMAIN scores
    IN  /\ Cardinality(inQueue) = Len(workqueue)
        /\ Cardinality(inHand) = Cardinality(Held)
        /\ Cardinality(inChan) = Len(chan)
        /\ inQueue \cap inHand = {} /\ inQueue \cap inChan = {} /\ inQueue \cap inTable = {}
        /\ inHand \cap inChan = {} /\ inHand \cap inTable = {}
        /\ inChan \cap inTable = {}
        /\ inQueue \cup inHand \cup inChan \cup inTable = queued
        /\ pc \notin {"args", "filter", "check", "openlog", "load", "pairs", "aborted", "panicked"} =>
                queued = UnorderedPairs(DOMAIN files)

\* Three generated pairs, one in each of three places: held by a worker, in
\* the channel, in the score table.
C19_Witness ==
    /\ Cardinality(queued) = 3
    /\ Cardinality(Held) = 1
    /\ Len(chan) = 1
    /\ Cardinality(DOMAIN scores) = 1

\* C20: a worker holds the queue lock exactly while it is at its pop: at
\* most one worker holds it, none holds it while scoring or sending, and a
\* worker waiting at lock() can take the lock whenever no worker is at its
\* pop, whatever the others are scoring.
C20_LockHeldOnlyForPop ==
    /\ lock \in {0} \cup Workers
    /\ \A w \in Workers : (lock = w) <=> (wpc[w] = "pop")
    /\ Cardinality({w \in Workers : wpc[w] = "pop"}) <= 1
    /\ \A w \in Workers : wpc[w] \in {"score", "lock", "exited", "unspawned"} => lock # w
    /\ \A v \in Workers :
            (wpc[v] = "lock" /\ \A w \in Workers : wpc[w] # "pop") => ENABLED Lock(v)

\* One worker is scoring a job while the other holds the lock for its pop,
\* with a job left to claim.
C20_Witness ==
    /\ \E w \in Workers, v \in Workers : wpc[w] = "score" /\ wpc[v] = "pop" /\ lock = v
    /\ workqueue # <<>>

====
